---- MODULE Spec2Model ----
(***************************************************************************)
(* Model of api/chat.js: the request handler of the chat endpoint.         *)
(*                                                                         *)
(* The file holds two variants of the function; they differ in the prompt  *)
(* text and in the sampling parameters sent upstream, and are identical in *)
(* everything modelled here (lines 96-172 and 311-388).                    *)
(*                                                                         *)
(* A JavaScript value is a record [t, s]: t is the result of typeof        *)
(* ("null" for null) and s the text of a string value.                     *)
(***************************************************************************)
EXTENDS Integers, Sequences, FiniteSets, TLC

VARIABLES
    hits,   \* the limiter map: caller key -> [count, windowStart]
    now,    \* the value Date.now() returns
    inv,    \* the handler invocations: slot -> position, req, res, timer, ...
    log     \* history: caller key -> (instant -> upstream calls issued then)

vars == <<hits, now, inv, log>>

----------------------------------------------------------------------------
(* Program constants *)

WINDOW_MS == 60000
MAX_REQ_PER_WINDOW == 20
MAX_INPUT_CHARS == 700
TIMEOUT_MS == 20000

(* Bounds of the model *)

\* a key's count is not driven beyond this value
MaxCount == 22

----------------------------------------------------------------------------
(* Strings *)
(* A string is a sequence of runs [c, n]: n >= 1 copies of the character   *)
(* c, neighbouring runs holding different characters.  A literal text of   *)
(* the source that is never taken apart is kept as one run of one token.   *)

Min(S) == CHOOSE x \in S : \A y \in S : x <= y
Max(S) == CHOOSE x \in S : \A y \in S : x >= y

Run(c, n) == IF n = 0 THEN <<>> ELSE <<[c |-> c, n |-> n]>>
Lit(text) == Run(text, 1)
\* the string of the given characters, no two neighbours equal
Chars(cs) == [i \in DOMAIN cs |-> [c |-> cs[i], n |-> 1]]

\* s.length
RECURSIVE Length(_)
Length(s) == IF s = <<>> THEN 0 ELSE Head(s).n + Length(Tail(s))

IsSpace(c) == c \in {" ", "\t", "\n"}

\* String.prototype.trim: drop the white space at both ends
Trim(s) ==
    LET keep == {i \in 1..Len(s) : ~IsSpace(s[i].c)}
    IN  IF keep = {} THEN <<>> ELSE SubSeq(s, Min(keep), Max(keep))

\* s.split(",")[0]: the text before the first comma
SplitFirst(s) ==
    LET commas == {i \in 1..Len(s) : s[i].c = ","}
    IN  IF commas = {} THEN s ELSE SubSeq(s, 1, Min(commas) - 1)

\* Math.ceil(a / b) for a >= 0, b > 0
Ceil(a, b) == (a + b - 1) \div b

----------------------------------------------------------------------------
(* JavaScript values *)

Undefined == [t |-> "undefined", s |-> <<>>]
Null == [t |-> "null", s |-> <<>>]
Str(s) == [t |-> "string", s |-> s]
Num == [t |-> "number", s |-> <<>>]

\* ToBoolean, for the values that occur (the number is non-zero)
Truthy(v) ==
    CASE v.t = "undefined" -> FALSE
      [] v.t = "null" -> FALSE
      [] v.t = "string" -> v.s # <<>>
      [] OTHER -> TRUE

----------------------------------------------------------------------------
(* Requests: [method, body, xff, remoteAddress]                            *)
(* body is req.body: [t, message], message being the value of its message  *)
(* property (Undefined when the body has none, or is not an object).       *)
(* xff is req.headers["x-forwarded-for"], remoteAddress is                 *)
(* req.socket?.remoteAddress.                                              *)

NoBody == [t |-> "undefined", message |-> Undefined]
\* a body whose access throws (the JSON sent does not parse)
BadBody == [t |-> "invalid", message |-> Undefined]
Body(m) == [t |-> "object", message |-> m]

ADDR == Lit("10.0.0.1")
UNKNOWN == Lit("unknown")

Methods == {"GET", "PUT", "POST"}

Hello == Str(Chars(<<"h", "i">>))

Messages ==
    { Undefined, Null, Num,
      Str(<<>>), Str(Run(" ", 2)), Str(Run(" ", MAX_INPUT_CHARS + 1)),
      Hello, Str(Chars(<<" ", "h", "i", "\n">>)),
      Str(Run("x", MAX_INPUT_CHARS)), Str(Run("x", MAX_INPUT_CHARS + 1)),
      Str(Chars(<<"a", " ", "B", "o", "M", "b">>)) }

Bodies == {NoBody, BadBody} \cup {Body(m) : m \in Messages}

\* header shapes from which line 112 derives ADDR: the first entry of
\* x-forwarded-for, or the socket's address when that entry is absent or empty
ViaForwarded ==
    [xff |-> Str(Run(" ", 1) \o ADDR \o Chars(<<" ", ",">>) \o Lit("10.0.0.2")),
     remoteAddress |-> Undefined]
ViaSocket == [xff |-> Undefined, remoteAddress |-> Str(ADDR)]
ViaEmptyForwarded ==
    [xff |-> Str(Run(",", 1) \o Lit("10.0.0.2")), remoteAddress |-> Str(ADDR)]
\* no address at all: the key is "unknown"
Anonymous == [xff |-> Undefined, remoteAddress |-> Undefined]
\* a request whose headers cannot be read: line 113 throws
NoHeaders == [xff |-> [t |-> "invalid", s |-> <<>>], remoteAddress |-> Undefined]

Req(method, body, from) ==
    [method |-> method, body |-> body,
     xff |-> from.xff, remoteAddress |-> from.remoteAddress]

\* the requests of one caller: every method and body, every way to carry its
\* address, and the other methods also with no address
Requests ==
    {Req(m, b, ViaForwarded) : m \in Methods, b \in Bodies}
        \cup {Req("POST", Body(Hello), from) : from \in {ViaSocket, ViaEmptyForwarded}}
        \cup {Req(m, Body(Hello), Anonymous) : m \in Methods \ {"POST"}}
        \cup {Req("POST", Body(Hello), NoHeaders)}

----------------------------------------------------------------------------
(* The response object *)

\* sent counts the responses sent; a status of 0 and an empty body: none yet
NewRes ==
    [sent |-> 0, status |-> 0, headers |-> <<>>, body |-> [field |-> "", text |-> <<>>]]

\* res.setHeader(name, value)
SetHeader(res, name, value) ==
    [res EXCEPT !.headers = (name :> value) @@ @]

\* res.status(code).json({ [field]: text })
Respond(res, code, field, text) ==
    [res EXCEPT !.sent = @ + 1, !.status = code,
                !.body = [field |-> field, text |-> text]]

----------------------------------------------------------------------------
(* Validation: lines 97-109 *)

\* const { message } = req.body || {}
MessageOf(req) ==
    IF req.body.t = "object" THEN req.body.message ELSE Undefined

\* the test without the trim: typeof message !== "string" || !message
MissingMessageNoTrim(message) == message.t # "string" \/ ~Truthy(message)

\* typeof message !== "string" || !message.trim()
MissingMessage(message) ==
    message.t # "string" \/ ~Truthy(Str(Trim(message.s)))

\* the length test with >= for >
MessageTooLongAtMax(message) == Length(message.s) >= MAX_INPUT_CHARS

\* message.length > MAX_INPUT_CHARS
MessageTooLong(message) == Length(message.s) > MAX_INPUT_CHARS

----------------------------------------------------------------------------
(* The rate limiter: lines 111-126 *)

\* req.headers["x-forwarded-for"]?.toString().split(",")[0].trim()
\*   || req.socket?.remoteAddress || "unknown"
ClientIp(req) ==
    LET fwd == IF req.xff.t = "undefined" THEN Undefined
               ELSE Str(Trim(SplitFirst(req.xff.s)))
    IN  IF Truthy(fwd) THEN fwd.s
        ELSE IF Truthy(req.remoteAddress) THEN req.remoteAddress.s
        ELSE UNKNOWN

\* hits.get(ip) || { count: 0, windowStart: now }
Lookup(h, ip, t) ==
    IF ip \in DOMAIN h THEN h[ip] ELSE [count |-> 0, windowStart |-> t]

\* a reset made on every request, expired or not
ExpireAlways(rec, t) == [count |-> 0, windowStart |-> t]

\* the reset that forgets rec.windowStart = now
ExpireCountOnly(rec, t) ==
    IF t - rec.windowStart > WINDOW_MS THEN [rec EXCEPT !.count = 0] ELSE rec

\* if (now - rec.windowStart > WINDOW_MS) { rec.count = 0; rec.windowStart = now; }
Expire(rec, t) ==
    IF t - rec.windowStart > WINDOW_MS
    THEN [count |-> 0, windowStart |-> t]
    ELSE rec

\* line 121 with the increment lost: the record is stored as it was read
IncrementLost(rec) == rec

\* rec.count += 1
Increment(rec) == [rec EXCEPT !.count = @ + 1]

\* the record of ip after lines 117-121
Counted(h, ip, t) == Increment(Expire(Lookup(h, ip, t), t))

\* a limiter that counts and never refuses
NeverLimited(rec) == FALSE

\* the limit taken as reached at MAX_REQ_PER_WINDOW (>= for >)
LimitedAtMax(rec) == rec.count >= MAX_REQ_PER_WINDOW

\* rec.count > MAX_REQ_PER_WINDOW
Limited(rec) == rec.count > MAX_REQ_PER_WINDOW

\* Math.ceil(Math.max(0, WINDOW_MS - (now - rec.windowStart)) / 1000)
RetryAfter(rec, t) ==
    Ceil(Max({0, WINDOW_MS - (t - rec.windowStart)}), 1000)

----------------------------------------------------------------------------
(* The timeout timer: lines 129-130 and 158 *)

NoTimer == [state |-> "none", at |-> 0]

\* setTimeout(() => controller.abort(), TIMEOUT_MS), called at time t
SetTimeout(t) == [state |-> "scheduled", at |-> t]

\* clearTimeout(tid): cancels a timer that has not fired yet
ClearTimeout(timer) ==
    IF timer.state = "scheduled" THEN [timer EXCEPT !.state = "cleared"] ELSE timer

----------------------------------------------------------------------------
(* A handler invocation *)
(* pc: "idle" (not called), "fetch" (at the await of line 138),            *)
(* "errorBody" (at the await of line 162), "okBody" (at the await of       *)
(* line 166), "done" (returned).  calls counts the fetch calls issued.     *)
(* at and seen are the locals of lines 116-117: the time read, and the     *)
(* record the lookup returned, as it was before lines 118-121 changed it.  *)

NoRecord == [count |-> 0, windowStart |-> 0]

Idle ==
    [pc |-> "idle", req |-> [method |-> "GET", body |-> NoBody,
                             xff |-> Undefined, remoteAddress |-> Undefined],
     res |-> NewRes, timer |-> NoTimer, calls |-> 0, at |-> 0, seen |-> NoRecord]

\* return res.status(code).json({ error: text })
Fail(iv, code, text) ==
    [iv EXCEPT !.pc = "done", !.res = Respond(@, code, "error", text)]

\* a catch block that relays the exception's text
ServerErrorWithText(iv) == Fail(iv, 500, Lit("TypeError: fetch failed"))

\* the catch block of lines 169-171
ServerError(iv) == Fail(iv, 500, Lit("Server error."))

\* only GET refused
NotPostOnlyGet(req) == req.method = "GET"

\* line 97
NotPost(req) == req.method # "POST"

\* lines 98-99
MethodNotAllowed(iv) ==
    Fail([iv EXCEPT !.res = SetHeader(@, "Allow", "POST")], 405, Lit("Use POST"))

\* line 108
TooLong(iv) ==
    Fail(iv, 413, Lit("Message too long (max ") \o Lit(ToString(MAX_INPUT_CHARS))
                    \o Lit(" chars)."))

\* lines 123-125 without the return: the 429 is sent and the handler goes on
\* to set the timer and call the upstream
TooManyRequestsNoReturn(iv, rec, t) ==
    [iv EXCEPT !.res = Respond(SetHeader(@, "Retry-After", RetryAfter(rec, t)),
                               429, "error",
                               Lit("Too many requests. Try again shortly.")),
               !.pc = "fetch", !.timer = SetTimeout(t), !.calls = @ + 1]

\* lines 123-125
TooManyRequests(iv, rec, t) ==
    Fail([iv EXCEPT !.res = SetHeader(@, "Retry-After", RetryAfter(rec, t))],
         429, Lit("Too many requests. Try again shortly."))

\* lines 129-138: the timer is set and the fetch is issued
CallUpstream(iv, t) ==
    [iv EXCEPT !.pc = "fetch", !.timer = SetTimeout(t), !.calls = @ + 1]

\* the limiter of lines 112-121 moved before the validation of lines 103-109
BeginCountFirst(req, h, t) ==
    LET iv == [Idle EXCEPT !.req = req] IN
    IF NotPost(req) THEN [iv |-> MethodNotAllowed(iv), hits |-> h]
    ELSE IF req.body.t = "invalid" \/ req.xff.t = "invalid"
    THEN [iv |-> ServerError(iv), hits |-> h]
    ELSE LET message == MessageOf(req)
             ip == ClientIp(req)
             rec == Counted(h, ip, t)
             iv1 == [iv EXCEPT !.at = t, !.seen = Lookup(h, ip, t)]
         IN  [iv |-> IF MissingMessage(message)
                     THEN Fail(iv, 400, Lit("Missing message"))
                     ELSE IF MessageTooLong(message) THEN TooLong(iv)
                     ELSE IF Limited(rec) THEN TooManyRequests(iv1, rec, t)
                     ELSE CallUpstream(iv1, t),
              hits |-> (ip :> rec) @@ h]

\* lines 97-138: the handler from its call to its first await or its return.
\* The result is the invocation and the limiter map it leaves.
Begin(req, h, t) ==
    LET iv == [Idle EXCEPT !.req = req] IN
    IF NotPost(req) THEN [iv |-> MethodNotAllowed(iv), hits |-> h]
    ELSE IF req.body.t = "invalid" THEN [iv |-> ServerError(iv), hits |-> h]
    ELSE LET message == MessageOf(req) IN
    IF MissingMessage(message)
    THEN [iv |-> Fail(iv, 400, Lit("Missing message")), hits |-> h]
    ELSE IF MessageTooLong(message) THEN [iv |-> TooLong(iv), hits |-> h]
    ELSE IF req.xff.t = "invalid" THEN [iv |-> ServerError(iv), hits |-> h]
    ELSE LET ip == ClientIp(req)
             rec == Counted(h, ip, t)
             iv1 == [iv EXCEPT !.at = t, !.seen = Lookup(h, ip, t)]
         IN  [iv |-> IF Limited(rec) THEN TooManyRequests(iv1, rec, t)
                     ELSE CallUpstream(iv1, t),
              hits |-> (ip :> rec) @@ h]

(* What the awaited fetch promise settles to *)
Resolved(ok) == [kind |-> "resolved", ok |-> ok, name |-> ""]
Rejected(name) == [kind |-> "rejected", ok |-> FALSE, name |-> name]

\* the catch handler testing for the wrong error name
CatchFetchTimeoutError(out) ==
    IF out.kind = "rejected"
    THEN IF out.name = "TimeoutError"
         THEN [kind |-> "value", ok |-> FALSE, aborted |-> TRUE]
         ELSE [kind |-> "throw", ok |-> FALSE, aborted |-> FALSE]
    ELSE [kind |-> "value", ok |-> out.ok, aborted |-> FALSE]

\* lines 153-156: the catch handler on the fetch promise; the value of r, or a throw
CatchFetch(out) ==
    IF out.kind = "rejected"
    THEN IF out.name = "AbortError"
         THEN [kind |-> "value", ok |-> FALSE, aborted |-> TRUE]
         ELSE [kind |-> "throw", ok |-> FALSE, aborted |-> FALSE]
    ELSE [kind |-> "value", ok |-> out.ok, aborted |-> FALSE]

\* line 161 without its return: the 504 is sent, line 162 then calls r.json
\* on the object of line 154, which throws, and the catch block answers again
AfterFetchNoReturn(iv, out) ==
    LET r == CatchFetch(out) IN
    IF r.kind = "throw" THEN ServerError(iv)
    ELSE LET iv1 == [iv EXCEPT !.timer = ClearTimeout(@)] IN
    IF ~r.ok
    THEN IF r.aborted
         THEN ServerError(Fail(iv1, 504, Lit("Upstream timeout.")))
         ELSE [iv1 EXCEPT !.pc = "errorBody"]
    ELSE [iv1 EXCEPT !.pc = "okBody"]

\* a timed-out call tried once more instead of answered
AfterFetchRetry(iv, out) ==
    LET r == CatchFetch(out) IN
    IF r.kind = "throw" THEN ServerError(iv)
    ELSE LET iv1 == [iv EXCEPT !.timer = ClearTimeout(@)] IN
    IF ~r.ok
    THEN IF r.aborted
         THEN IF iv1.calls < 2 THEN CallUpstream(iv1, iv1.at)
              ELSE Fail(iv1, 504, Lit("Upstream timeout."))
         ELSE [iv1 EXCEPT !.pc = "errorBody"]
    ELSE [iv1 EXCEPT !.pc = "okBody"]

\* lines 138-166: from the settling of the fetch to the next await or return
AfterFetch(iv, out) ==
    LET r == CatchFetch(out) IN
    IF r.kind = "throw" THEN ServerError(iv)
    ELSE LET iv1 == [iv EXCEPT !.timer = ClearTimeout(@)] IN
    IF ~r.ok
    THEN IF r.aborted
         THEN Fail(iv1, 504, Lit("Upstream timeout."))
         ELSE [iv1 EXCEPT !.pc = "errorBody"]
    ELSE [iv1 EXCEPT !.pc = "okBody"]

(* What r.json() settles to: a parse failure, or the parsed data, of which *)
(* message is data?.error?.message, content is the content property at the *)
(* end of the path choices[0].message.content, and absent names the first  *)
(* field of that path the data lacks ("" when it lacks none).              *)
Unparsed ==
    [parsed |-> FALSE, message |-> Undefined, content |-> Undefined, absent |-> ""]
Data(m, c) == [parsed |-> TRUE, message |-> m, content |-> c, absent |-> ""]
Without(field) == [Data(Undefined, Undefined) EXCEPT !.absent = field]

\* line 162 without its catch: a body that does not parse throws
AfterErrorBodyNoCatch(iv, json) ==
    IF ~json.parsed THEN ServerError(iv)
    ELSE Fail(iv, 502, IF Truthy(json.message) THEN json.message.s
                       ELSE Lit("Upstream error."))

\* lines 162-163
AfterErrorBody(iv, json) ==
    LET data == IF json.parsed THEN json ELSE Data(Undefined, Undefined)
        text == IF Truthy(data.message) THEN data.message.s ELSE Lit("Upstream error.")
    IN  Fail(iv, 502, text)

\* return res.status(200).json({ reply: text })
Reply(iv, text) ==
    [iv EXCEPT !.pc = "done", !.res = Respond(@, 200, "reply", text)]

\* line 167: data?.choices?.[0]?.message?.content
ContentOf(json) == IF json.absent # "" THEN Undefined ELSE json.content

\* line 167 without the optional chaining: an absent field throws
AfterOkBodyNoChaining(iv, json) ==
    IF ~json.parsed \/ json.absent # "" THEN ServerError(iv)
    ELSE IF json.content.t \in {"undefined", "null"} THEN Reply(iv, <<>>)
    ELSE IF json.content.t # "string" THEN ServerError(iv)
    ELSE Reply(iv, Trim(json.content.s))

\* lines 166-168: content?.trim() ?? "" throws when content is neither
\* a string nor null nor undefined
AfterOkBody(iv, json) ==
    LET content == ContentOf(json) IN
    IF ~json.parsed THEN ServerError(iv)
    ELSE IF content.t \in {"undefined", "null"} THEN Reply(iv, <<>>)
    ELSE IF content.t # "string" THEN ServerError(iv)
    ELSE Reply(iv, Trim(content.s))

\* the timer's callback, controller.abort(): the wait in progress is rejected
Abort(iv) ==
    CASE iv.pc = "fetch" -> AfterFetch(iv, Rejected("AbortError"))
      [] iv.pc = "errorBody" -> AfterErrorBody(iv, Unparsed)
      [] iv.pc = "okBody" -> AfterOkBody(iv, Unparsed)
      [] OTHER -> iv

----------------------------------------------------------------------------
(* Inputs *)

\* the invocations in progress at a time: one
Slots == {1}

Instants == {0, 1000, WINDOW_MS, WINDOW_MS + 1, 2 * WINDOW_MS + 2}

FetchOutcomes == {Resolved(TRUE), Resolved(FALSE), Rejected("TypeError")}

JsonOutcomes ==
    { Unparsed,
      Data(Str(Lit("Quota exceeded")), Undefined),
      Data(Str(<<>>), Undefined),
      Data(Undefined, Str(Chars(<<" ", "H", "i", "\n">>))),
      Data(Undefined, Null),
      Data(Undefined, Num) }
        \cup {Without(field) : field \in {"choices", "0", "message", "content"}}

----------------------------------------------------------------------------
(* Actions *)

Init ==
    /\ hits = <<>>
    /\ now = 0
    /\ inv = [s \in Slots |-> Idle]
    /\ log = <<>>

\* a slot is free when its invocation has returned and its timer is gone
Free(iv) == iv.pc \in {"idle", "done"} /\ iv.timer.state # "scheduled"

\* handler(req, res) is called and runs to its first await or to its return
Handler(s, req) ==
    /\ Free(inv[s])
    /\ LET b == Begin(req, hits, now) IN
        /\ \A k \in DOMAIN b.hits : b.hits[k].count <= MaxCount
        /\ inv' = [inv EXCEPT ![s] = b.iv]
        /\ hits' = b.hits
    /\ UNCHANGED now

\* the fetch promise settles and the handler resumes
FetchSettles(s, out) ==
    /\ inv[s].pc = "fetch"
    /\ inv' = [inv EXCEPT ![s] = AfterFetch(@, out)]
    /\ UNCHANGED <<hits, now, log>>

\* the r.json() promise settles and the handler resumes
BodySettles(s, json) ==
    /\ inv[s].pc \in {"errorBody", "okBody"}
    /\ inv' = [inv EXCEPT ![s] = IF @.pc = "errorBody" THEN AfterErrorBody(@, json)
                                 ELSE AfterOkBody(@, json)]
    /\ UNCHANGED <<hits, now, log>>

\* the timer of an invocation fires: its callback aborts the controller
TimerFires(s) ==
    /\ inv[s].timer.state = "scheduled"
    /\ now - inv[s].timer.at >= TIMEOUT_MS
    /\ inv' = [inv EXCEPT ![s] = Abort([@ EXCEPT !.timer.state = "fired"])]
    /\ UNCHANGED <<hits, now, log>>

\* time passes
Tick(t) ==
    /\ t > now
    /\ now' = t
    /\ UNCHANGED <<hits, inv, log>>

\* Spec keeps no history of the calls
Next ==
    \/ \E s \in Slots, req \in Requests : Handler(s, req) /\ UNCHANGED log
    \/ \E s \in Slots, out \in FetchOutcomes : FetchSettles(s, out)
    \/ \E s \in Slots, json \in JsonOutcomes : BodySettles(s, json)
    \/ \E s \in Slots : TimerFires(s)
    \/ \E t \in Instants : Tick(t)

Spec == Init /\ [][Next]_vars

----------------------------------------------------------------------------
(* Properties *)

\* the text is white space only (or empty)
Blank(s) == \A i \in 1..Len(s) : IsSpace(s[i].c)

\* the body carries a string message that is not empty after trimming
HasMessage(req) ==
    /\ req.body.t = "object"
    /\ req.body.message.t = "string"
    /\ ~Blank(req.body.message.s)

\* a POST whose message passes validation
ValidPost(req) ==
    /\ req.method = "POST"
    /\ HasMessage(req)
    /\ Length(req.body.message.s) <= MAX_INPUT_CHARS

Called(iv) == iv.pc # "idle"

\* C1: a valid POST that is one of the first MAX_REQ_PER_WINDOW requests its
\* key makes in a window goes on to the upstream call without a response, and
\* every further one in that window is answered 429 with a Retry-After header
\* holding a number from 0 to WINDOW_MS / 1000.
C1_WindowQuota ==
    [][\A s \in DOMAIN inv :
         (hits' # hits /\ ValidPost(inv'[s].req) /\ Handler(s, inv'[s].req)) =>
            LET rec == hits'[ClientIp(inv'[s].req)]
                iv == inv'[s]
            IN  IF rec.count <= MAX_REQ_PER_WINDOW
                THEN iv.pc = "fetch" /\ iv.res.sent = 0
                ELSE /\ iv.pc = "done"
                     /\ iv.res.status = 429
                     /\ "Retry-After" \in DOMAIN iv.res.headers
                     /\ iv.res.headers["Retry-After"] \in 0..(WINDOW_MS \div 1000)]_vars

\* the 21st request of a window, made 59 s 1 ms after the window's start, is
\* answered 429 with Retry-After: 1 (999 ms rounded up), and the 20th was admitted
C1_Witness ==
    \E s \in DOMAIN inv :
        /\ inv[s].res.status = 429
        /\ inv[s].seen.count = MAX_REQ_PER_WINDOW
        /\ inv[s].at - inv[s].seen.windowStart = WINDOW_MS - 999
        /\ inv[s].res.headers["Retry-After"] = 1

\* C2: when a key's count has passed MAX_REQ_PER_WINDOW and its window has
\* elapsed (now - windowStart > WINDOW_MS), the key's next valid request goes
\* on to the upstream call and leaves the record at count 1, windowStart now.
C2_ElapsedWindowAdmits ==
    [][\A s \in DOMAIN inv :
         (hits' # hits /\ ValidPost(inv'[s].req) /\ Handler(s, inv'[s].req)) =>
            LET ip == ClientIp(inv'[s].req) IN
            (/\ ip \in DOMAIN hits
             /\ hits[ip].count > MAX_REQ_PER_WINDOW
             /\ now - hits[ip].windowStart > WINDOW_MS)
            => /\ inv'[s].pc = "fetch"
               /\ inv'[s].res.sent = 0
               /\ hits'[ip] = [count |-> 1, windowStart |-> now]]_vars

\* a request found its key's record over the limit and older than the window,
\* was admitted, and the record is now {count: 1, windowStart: its time}
C2_Witness ==
    \E s \in DOMAIN inv :
        /\ inv[s].seen.count > MAX_REQ_PER_WINDOW
        /\ inv[s].at - inv[s].seen.windowStart > WINDOW_MS
        /\ inv[s].pc = "fetch"
        /\ hits[ClientIp(inv[s].req)] = [count |-> 1, windowStart |-> inv[s].at]

\* C3: a request whose method is not POST is answered 405 with the header
\* Allow: POST, whatever its body, its headers and the limiter's state.
C3_NotPostIs405 ==
    \A s \in DOMAIN inv :
        (Called(inv[s]) /\ inv[s].req.method # "POST") =>
            /\ inv[s].pc = "done"
            /\ inv[s].res.status = 405
            /\ "Allow" \in DOMAIN inv[s].res.headers
            /\ inv[s].res.headers["Allow"] = "POST"

\* a PUT with a valid message, from a key that has used up its quota: 405
C3_Witness ==
    \E s \in DOMAIN inv :
        /\ inv[s].req.method = "PUT"
        /\ inv[s].req.body = Body(Hello)
        /\ ClientIp(inv[s].req) \in DOMAIN hits
        /\ hits[ClientIp(inv[s].req)].count > MAX_REQ_PER_WINDOW
        /\ inv[s].res.status = 405
        /\ inv[s].res.headers["Allow"] = "POST"

\* C4: a POST whose body is missing, or whose message is absent, not a
\* string, or empty after trimming, is answered 400.
C4_MissingMessageIs400 ==
    \A s \in DOMAIN inv :
        LET req == inv[s].req IN
        (/\ Called(inv[s])
         /\ req.method = "POST"
         /\ \/ req.body.t = "undefined"
            \/ /\ req.body.t = "object"
               /\ \/ req.body.message.t # "string"
                  \/ Blank(req.body.message.s))
        => inv[s].pc = "done" /\ inv[s].res.status = 400

\* a POST whose message is two spaces: 400
C4_Witness ==
    \E s \in DOMAIN inv :
        /\ inv[s].req.method = "POST"
        /\ inv[s].req.body = Body(Str(Run(" ", 2)))
        /\ inv[s].res.status = 400

\* the error text names the maximum
NamesMaximum(text) == \E i \in 1..Len(text) : text[i].c = ToString(MAX_INPUT_CHARS)

\* C5 as stated: every POST whose message is longer than MAX_INPUT_CHARS is
\* answered 413 with an error text naming the maximum, and a message of
\* exactly MAX_INPUT_CHARS characters is not answered 413.
C5_Original ==
    \A s \in DOMAIN inv :
        LET req == inv[s].req IN
        (/\ Called(inv[s])
         /\ req.method = "POST"
         /\ req.body.t = "object"
         /\ req.body.message.t = "string")
        => /\ Length(req.body.message.s) > MAX_INPUT_CHARS
                => /\ inv[s].res.status = 413
                   /\ NamesMaximum(inv[s].res.body.text)
           /\ Length(req.body.message.s) = MAX_INPUT_CHARS
                => inv[s].res.status # 413

\* C5, amended: every POST whose message is not empty after trimming and is
\* longer than MAX_INPUT_CHARS is answered 413 with an error text naming the
\* maximum, and a message of exactly MAX_INPUT_CHARS characters is not
\* answered 413.
C5_TooLongIs413 ==
    \A s \in DOMAIN inv :
        LET req == inv[s].req IN
        (/\ Called(inv[s])
         /\ req.method = "POST"
         /\ req.body.t = "object"
         /\ req.body.message.t = "string")
        => /\ (Length(req.body.message.s) > MAX_INPUT_CHARS
                    /\ ~Blank(req.body.message.s))
                => /\ inv[s].res.status = 413
                   /\ NamesMaximum(inv[s].res.body.text)
           /\ Length(req.body.message.s) = MAX_INPUT_CHARS
                => inv[s].res.status # 413

\* a POST whose message is MAX_INPUT_CHARS + 1 letters: 413, naming the maximum
C5_Witness ==
    \E s \in DOMAIN inv :
        /\ inv[s].req.method = "POST"
        /\ inv[s].req.body = Body(Str(Run("x", MAX_INPUT_CHARS + 1)))
        /\ inv[s].res.status = 413
        /\ NamesMaximum(inv[s].res.body.text)

(* The content filter of the specification (4.1): a configured list of      *)
(* terms, matched anywhere in the message without regard to case.          *)

DENYLIST == { <<"b", "o", "m", "b">> }

\* the characters of a string, one by one
RECURSIVE Expand(_)
Expand(s) ==
    IF s = <<>> THEN <<>> ELSE [i \in 1..Head(s).n |-> Head(s).c] \o Expand(Tail(s))

\* toLowerCase, for the letters that occur
Lower(c) ==
    CASE c = "B" -> "b"
      [] c = "O" -> "o"
      [] c = "M" -> "m"
      [] OTHER -> c

Denied(s) ==
    LET text == [i \in 1..Length(s) |-> Lower(Expand(s)[i])]
    IN  \E term \in DENYLIST :
            \E i \in 0..(Len(text) - Len(term)) :
                SubSeq(text, i + 1, i + Len(term)) = term

\* C6: a POST whose message matches the denylist, in any case, is answered
\* 400 and no upstream call is made for it.
C6_DeniedIs400 ==
    \A s \in DOMAIN inv :
        LET req == inv[s].req IN
        (/\ Called(inv[s])
         /\ req.method = "POST"
         /\ req.body.t = "object"
         /\ req.body.message.t = "string"
         /\ Denied(req.body.message.s))
        => /\ inv[s].pc = "done"
           /\ inv[s].res.status = 400
           /\ inv[s].calls = 0

Statuses == {405, 400, 413, 429, 504, 502, 200, 500}

C8_OneUpstreamCall ==
    \A s \in DOMAIN inv :
        /\ inv[s].calls <= 1
        /\ inv[s].pc \in {"fetch", "errorBody", "okBody"} => inv[s].calls = 1
        /\ inv[s].res.status \in {504, 502, 200} => inv[s].calls = 1

\* the call timed out, the 504 is sent and one call was issued
C8_Witness ==
    \E s \in DOMAIN inv :
        /\ inv[s].pc = "done"
        /\ inv[s].timer.state = "fired"
        /\ inv[s].res.status = 504
        /\ inv[s].calls = 1

\* C9: when the timer fires while the fetch is pending, the wait ends and the
\* response is 504 {"error": "Upstream timeout."}, not 502, 500 or 200.
C9_TimeoutIs504 ==
    [][\A s \in DOMAIN inv :
         (inv[s].pc = "fetch" /\ TimerFires(s)) =>
            /\ inv'[s].pc = "done"
            /\ inv'[s].res.sent = 1
            /\ inv'[s].res.status = 504
            /\ inv'[s].res.body = [field |-> "error", text |-> Lit("Upstream timeout.")]]_vars

\* TIMEOUT_MS after the call was issued the timer has fired and the 504 is sent
C9_Witness ==
    \E s \in DOMAIN inv :
        /\ inv[s].timer.state = "fired"
        /\ now - inv[s].timer.at >= TIMEOUT_MS
        /\ inv[s].calls = 1
        /\ inv[s].res.status = 504
        /\ inv[s].res.body.text = Lit("Upstream timeout.")

\* C10: once the upstream call of an invocation has completed (the fetch
\* resolved, was aborted or rejected), its timer is no longer scheduled.
C10_TimerCleared ==
    \A s \in DOMAIN inv :
        inv[s].pc \in {"errorBody", "okBody", "done"} =>
            inv[s].timer.state # "scheduled"

----------------------------------------------------------------------------
(* The scheduling the runtime guarantees: time passes and a timer that is  *)
(* due fires.  Nothing obliges the upstream to answer or to finish a body. *)

FairSpec ==
    /\ Spec
    /\ WF_vars(\E t \in Instants : Tick(t))
    /\ \A s \in Slots : WF_vars(TimerFires(s))

\* the last instant of the model
Horizon == Max(Instants)

\* C11: an invocation that has issued its upstream call (early enough for the
\* timer to come due within the instants of the model) eventually returns.
C11_EventuallyResponds ==
    \A s \in Slots :
        (/\ inv[s].pc \in {"fetch", "errorBody", "okBody"}
         /\ inv[s].at + TIMEOUT_MS <= Horizon)
        ~> inv[s].pc = "done"

\* C12 as stated: when the upstream answered with a non-success status, the
\* response is 502 and its error text is the body's error.message when the
\* body has one and "Upstream error." otherwise, also for a body that does
\* not parse; the response is never 504.
C12_Original ==
    [][\A s \in DOMAIN inv :
         inv[s].pc = "errorBody" =>
            \A json \in JsonOutcomes :
                BodySettles(s, json) =>
                    /\ inv'[s].pc = "done"
                    /\ inv'[s].res.status = 502
                    /\ inv'[s].res.body.field = "error"
                    /\ inv'[s].res.body.text =
                          (IF json.parsed /\ json.message.t # "undefined"
                           THEN json.message.s ELSE Lit("Upstream error."))]_vars

\* C12, amended: the error text is the body's error.message when the body
\* has one that is not empty, and "Upstream error." otherwise.
C12_UpstreamErrorIs502 ==
    [][\A s \in DOMAIN inv :
         inv[s].pc = "errorBody" =>
            /\ inv'[s].pc = "errorBody" \/ inv'[s].res.status = 502
            /\ \A json \in JsonOutcomes :
                BodySettles(s, json) =>
                    /\ inv'[s].pc = "done"
                    /\ inv'[s].res.sent = 1
                    /\ inv'[s].res.status = 502
                    /\ inv'[s].res.body.field = "error"
                    /\ inv'[s].res.body.text =
                          (IF /\ json.parsed
                              /\ json.message.t = "string"
                              /\ json.message.s # <<>>
                           THEN json.message.s ELSE Lit("Upstream error."))]_vars

\* the upstream's error message relayed in a 502
C12_Witness ==
    \E s \in DOMAIN inv :
        /\ inv[s].pc = "done"
        /\ inv[s].timer.state = "cleared"
        /\ inv[s].res.status = 502
        /\ inv[s].res.body = [field |-> "error", text |-> Lit("Quota exceeded")]

\* C13: when the upstream answered with a success status and its body parses,
\* the response is 200 with the reply the trimmed text of the first
\* completion, and 200 with the empty reply when a field of the path
\* choices[0].message.content is absent (or the content is null).
C13_ReplyIsTrimmedContent ==
    [][\A s \in DOMAIN inv :
         inv[s].pc = "okBody" =>
            \A json \in JsonOutcomes :
                (/\ BodySettles(s, json)
                 /\ json.parsed
                 /\ json.absent # "" \/ json.content.t \in {"string", "undefined", "null"})
                => /\ inv'[s].pc = "done"
                   /\ inv'[s].res.sent = 1
                   /\ inv'[s].res.status = 200
                   /\ inv'[s].res.body.field = "reply"
                   /\ inv'[s].res.body.text =
                         (IF json.absent = "" /\ json.content.t = "string"
                          THEN Trim(json.content.s) ELSE <<>>)
                   /\ (json = Data(Undefined, Str(Chars(<<" ", "H", "i", "\n">>)))
                         => inv'[s].res.body.text = Chars(<<"H", "i">>))]_vars

\* the completion " Hi\n" relayed as the reply "Hi"
C13_Witness ==
    \E s \in DOMAIN inv :
        /\ inv[s].pc = "done"
        /\ inv[s].res.status = 200
        /\ inv[s].res.body = [field |-> "reply", text |-> Chars(<<"H", "i">>)]

\* the response of the catch block
IsServerError(iv) ==
    /\ iv.pc = "done"
    /\ iv.res.sent = 1
    /\ iv.res.status = 500
    /\ iv.res.body = [field |-> "error", text |-> Lit("Server error.")]

\* C14: every exception raised after the method check (reading the body,
\* deriving the key, a fetch rejected with another error than the abort, a
\* success body that does not parse or whose content cannot be trimmed) ends
\* the invocation with 500 {"error": "Server error."}.
C14_ExceptionIs500 ==
    [][\A s \in DOMAIN inv :
         /\ (/\ inv'[s].req.method = "POST"
             /\ inv'[s].req.body.t = "invalid" \/ inv'[s].req.xff.t = "invalid"
             /\ Handler(s, inv'[s].req))
            => IsServerError(inv'[s])
         /\ inv[s].pc = "fetch" =>
                \A out \in FetchOutcomes :
                    (out.kind = "rejected" /\ out.name # "AbortError"
                        /\ FetchSettles(s, out))
                    => IsServerError(inv'[s])
         /\ inv[s].pc = "okBody" =>
                \A json \in JsonOutcomes :
                    (/\ BodySettles(s, json)
                     /\ \/ ~json.parsed
                        \/ json.absent = "" /\ json.content.t = "number")
                    => IsServerError(inv'[s])]_vars

\* a success body that did not parse: the fetch had resolved, the 500 is sent
C14_Witness ==
    \E s \in DOMAIN inv :
        /\ IsServerError(inv[s])
        /\ inv[s].calls = 1
        /\ inv[s].timer.state = "cleared"

\* the statuses of the early exits of lines 97-126
Rejections == {405, 400, 413, 429}

\* C17: an invocation that has issued an upstream call or set a timer was
\* called with a valid POST whose key was within its quota, and an invocation
\* answered 405, 400, 413 or 429 has issued no call and set no timer.
C17_CallOnlyAfterChecks ==
    \A s \in DOMAIN inv :
        /\ inv[s].res.status \in Rejections =>
               inv[s].calls = 0 /\ inv[s].timer = NoTimer
        /\ (inv[s].calls > 0 \/ inv[s].timer # NoTimer) =>
               /\ ValidPost(inv[s].req)
               /\ ~Limited(Increment(Expire(inv[s].seen, inv[s].at)))

\* a request turned away by the limiter, with no call and no timer
C17_Witness ==
    \E s \in DOMAIN inv :
        /\ inv[s].res.status = 429
        /\ "Retry-After" \in DOMAIN inv[s].res.headers
        /\ inv[s].calls = 0
        /\ inv[s].timer = NoTimer

\* the statuses of the exits of lines 97-109
ValidationRejections == {405, 400, 413}

\* C18: a call of the handler that ends in 405, 400 or 413 leaves the limiter
\* map as it was: no record is created and no count or windowStart changes.
C18_RejectionLeavesHits ==
    [][\A s \in DOMAIN inv :
         (/\ inv'[s].res.status \in ValidationRejections
          /\ Handler(s, inv'[s].req))
         => hits' = hits]_vars

\* a caller turned away for a missing message, and still without a record
C18_Witness ==
    \E s \in DOMAIN inv :
        /\ inv[s].res.status = 400
        /\ inv[s].req.xff.t = "string"
        /\ ClientIp(inv[s].req) \notin DOMAIN hits

\* C19: when an invocation was answered 429 with Retry-After = s, a valid
\* request of the same key made s seconds or more after it is not answered
\* 429.
C19_RetryAfterAdmits ==
    [][\A s \in DOMAIN inv :
         (/\ inv[s].res.status = 429
          /\ ValidPost(inv'[s].req)
          /\ inv'[s].req.xff.t # "invalid"
          /\ ClientIp(inv'[s].req) = ClientIp(inv[s].req)
          /\ now >= inv[s].at + 1000 * inv[s].res.headers["Retry-After"]
          /\ Handler(s, inv'[s].req))
         => inv'[s].res.status # 429]_vars

----------------------------------------------------------------------------
(* Concurrent invocations of one caller, with the history of the upstream  *)
(* calls.  Two invocations are in flight at once: each runs from its call  *)
(* to its first await without interruption (Begin), and the other may be   *)
(* suspended at any of its awaits meanwhile.                               *)

ConcSlots == {1, 2}
ConcRequests == {Req("POST", Body(Hello), ViaForwarded)}
ConcInstants == {0, WINDOW_MS + 1}
ConcFetchOutcomes == {Resolved(TRUE)}
ConcJsonOutcomes == {Data(Undefined, Str(Chars(<<"H", "i">>)))}

\* the history after one more upstream call of key ip at time t
Logged(lg, ip, t) ==
    LET old == IF ip \in DOMAIN lg THEN lg[ip] ELSE <<>>
        n == IF t \in DOMAIN old THEN old[t] ELSE 0
    IN  (ip :> ((t :> n + 1) @@ old)) @@ lg

\* the handler is called; a call that reaches line 138 is written down
LoggedHandler(s, req) ==
    /\ Handler(s, req)
    /\ log' = IF inv'[s].pc = "fetch" THEN Logged(log, ClientIp(req), now)
              ELSE log

ConcInit ==
    /\ hits = <<>>
    /\ now = 0
    /\ inv = [s \in ConcSlots |-> Idle]
    /\ log = <<>>

ConcNext ==
    \/ \E s \in ConcSlots, req \in ConcRequests : LoggedHandler(s, req)
    \/ \E s \in ConcSlots, out \in ConcFetchOutcomes : FetchSettles(s, out)
    \/ \E s \in ConcSlots, json \in ConcJsonOutcomes : BodySettles(s, json)
    \/ \E s \in ConcSlots : TimerFires(s)
    \/ \E t \in ConcInstants : Tick(t)

ConcSpec == ConcInit /\ [][ConcNext]_vars

RECURSIVE Total(_, _)
\* the number of calls a history lg of one key holds at the instants of ts
Total(lg, ts) ==
    IF ts = {} THEN 0
    ELSE LET t == CHOOSE x \in ts : TRUE IN lg[t] + Total(lg, ts \ {t})

\* the upstream calls of key ip issued from time a to time b
Admitted(ip, a, b) ==
    IF ip \in DOMAIN log
    THEN Total(log[ip], {t \in DOMAIN log[ip] : a <= t /\ t <= b})
    ELSE 0

\* C15: whatever the interleaving of the invocations of one key, the upstream
\* calls issued for the key since the start of its current window are at most
\* MAX_REQ_PER_WINDOW.
C15_WindowAdmitsAtMostMax ==
    \A ip \in DOMAIN hits :
        Admitted(ip, hits[ip].windowStart, now) <= MAX_REQ_PER_WINDOW

\* the quota of a window used up: one invocation is refused while another of
\* the same key is suspended at its fetch
C15_Witness ==
    /\ \E s \in DOMAIN inv : inv[s].pc = "fetch"
    /\ \E s \in DOMAIN inv : inv[s].res.status = 429
    /\ \E ip \in DOMAIN hits :
        /\ Admitted(ip, hits[ip].windowStart, now) = MAX_REQ_PER_WINDOW
        /\ hits[ip].count > MAX_REQ_PER_WINDOW

----------------------------------------------------------------------------
(* One caller whose requests straddle the boundary of two windows: the     *)
(* first window starts at 0, the caller comes again at 1000 and, once the  *)
(* window has expired, WINDOW_MS after that.                               *)

BurstSlots == {1}
BurstInstants == {0, 1000, WINDOW_MS + 1000}

BurstInit ==
    /\ hits = <<>>
    /\ now = 0
    /\ inv = [s \in BurstSlots |-> Idle]
    /\ log = <<>>

BurstNext ==
    \/ \E s \in BurstSlots, req \in ConcRequests : LoggedHandler(s, req)
    \/ \E s \in BurstSlots, out \in ConcFetchOutcomes : FetchSettles(s, out)
    \/ \E s \in BurstSlots, json \in ConcJsonOutcomes : BodySettles(s, json)
    \/ \E s \in BurstSlots : TimerFires(s)
    \/ \E t \in BurstInstants : Tick(t)

BurstSpec == BurstInit /\ [][BurstNext]_vars

\* C16: the upstream calls issued for one key in any interval of WINDOW_MS
\* are at most 2 * MAX_REQ_PER_WINDOW.  The intervals taken are those that
\* begin at a call of the key: an interval that holds calls holds no more of
\* them than the interval of the same length that begins at its first call.
C16_IntervalAdmitsAtMostTwice ==
    \A ip \in DOMAIN log :
        \A a \in DOMAIN log[ip] :
            Admitted(ip, a, a + WINDOW_MS) <= 2 * MAX_REQ_PER_WINDOW

\* a burst across the boundary: more calls in an interval of WINDOW_MS than
\* one window allows, the end of one window and the whole of the next
C16_Witness ==
    \E ip \in DOMAIN log :
        \E a \in DOMAIN log[ip] :
            /\ Admitted(ip, a, a + WINDOW_MS) = 2 * MAX_REQ_PER_WINDOW - 1
            /\ hits[ip].windowStart > a

----------------------------------------------------------------------------
(* Two callers: one known by its forwarded address, one with no address at *)
(* all, whose key is "unknown".                                            *)

KeysSlots == {1}
KeysRequests == {Req("POST", Body(Hello), from) : from \in {ViaForwarded, Anonymous}}
KeysInstants == {0, 1000, WINDOW_MS + 1}

KeysInit ==
    /\ hits = <<>>
    /\ now = 0
    /\ inv = [s \in KeysSlots |-> Idle]
    /\ log = <<>>

KeysNext ==
    \/ \E s \in KeysSlots, req \in KeysRequests : Handler(s, req) /\ UNCHANGED log
    \/ \E s \in KeysSlots, out \in ConcFetchOutcomes : FetchSettles(s, out)
    \/ \E s \in KeysSlots, json \in ConcJsonOutcomes : BodySettles(s, json)
    \/ \E s \in KeysSlots : TimerFires(s)
    \/ \E t \in KeysInstants : Tick(t)

KeysSpec == KeysInit /\ [][KeysNext]_vars

\* the step is a call of the handler with a request of key ip
CallOf(ip) ==
    \E s \in DOMAIN inv :
        /\ inv'[s].req.xff.t # "invalid"
        /\ ClientIp(inv'[s].req) = ip
        /\ Handler(s, inv'[s].req)

\* C20: no record leaves the map; a record changes only in a call of the
\* handler made with its own key; its windowStart changes only when its
\* window has expired (a new record starts at the time of its creation); a
\* call answered 429 adds one to the count and leaves windowStart.
C20_OnlyOwnRecord ==
    [][/\ DOMAIN hits \subseteq DOMAIN hits'
       /\ \A ip \in DOMAIN hits' :
            /\ ip \notin DOMAIN hits =>
                   CallOf(ip) /\ hits'[ip] = [count |-> 1, windowStart |-> now]
            /\ (ip \in DOMAIN hits /\ hits'[ip] # hits[ip]) =>
                   /\ CallOf(ip)
                   /\ hits'[ip].windowStart # hits[ip].windowStart =>
                          /\ now - hits[ip].windowStart > WINDOW_MS
                          /\ hits'[ip].windowStart = now
       /\ \A s \in DOMAIN inv :
            (inv'[s].res.status = 429 /\ Handler(s, inv'[s].req)) =>
                LET ip == ClientIp(inv'[s].req) IN
                /\ ip \in DOMAIN hits
                /\ hits'[ip] = [hits[ip] EXCEPT !.count = @ + 1]]_vars

\* one caller refused, its count beyond the maximum, while the other caller's
\* record stands in a later window
C20_Witness ==
    \E s \in DOMAIN inv :
        LET ip == ClientIp(inv[s].req) IN
        /\ inv[s].res.status = 429
        /\ hits[ip].count > MAX_REQ_PER_WINDOW + 1
        /\ \E other \in DOMAIN hits \ {ip} :
               hits[other].windowStart > hits[ip].windowStart

====
